---- MODULE Spec2Model ----
(***************************************************************************)
(* HealthLingo (src/app.py): the answer-resolution pipeline of the chat    *)
(* script and the helper functions it is built from.                       *)
(*                                                                         *)
(* A Python str is modelled as the sequence of its Unicode code points, so *)
(* that lower(), strip(), len() and the `in` substring test are computed   *)
(* and not assumed.  The script is re-run by Streamlit on every user       *)
(* interaction; one run is split into steps at its blocking calls to the   *)
(* generation and translation services, whose outcomes are drawn           *)
(* nondeterministically.                                                   *)
(***************************************************************************)
EXTENDS Integers, Sequences, FiniteSets, TLC

VARIABLES
    faqs,       \* the knowledge base loaded from faqs.json (a sequence of entries, in file order)
    messages,   \* st.session_state.messages
    pc,         \* "idle" between script runs and calls, else the blocking call about to be made
    caller,     \* "script" for the pipeline, else the name of the function called directly
    args,       \* actual arguments of a direct call
    ret,        \* value returned by the last direct call
    calls,      \* external calls made by the current run or call, in order
    fetch,      \* locals of fetch_from_gemini
    trans,      \* locals of translate_text
    run         \* locals of the script run

vars == <<faqs, messages, pc, caller, args, ret, calls, fetch, trans, run>>

----------------------------------------------------------------------------
(* Bounds of the model *)

MaxSubmits == 2     \* queries answered since the last clear
MaxFairSubmits == 1 \* the same, in the specification with fairness
MaxRetries == 3     \* largest retry budget passed to fetch_from_gemini directly
MaxLen == 2         \* longest text passed to the pure helpers
MaxEntries == 2     \* most entries of a knowledge base

(* Program constants *)

DEFAULT_RETRIES == 2

PRIMARY_MODEL == "gemini-2.5-flash"
BACKUP_MODEL == "gemini-1.5-flash"

----------------------------------------------------------------------------
(* Python values *)

None == <<-1>>          \* Python's None
NotAString == <<-2>>    \* a JSON value that is not a string (a number, a list)

IsStr(x) == x # None /\ x # NotAString

\* `not x` is false: x is a non-empty string
Truthy(x) == x # None /\ x # <<>>

SetMin(S) == CHOOSE x \in S : \A y \in S : x <= y
SetMax(S) == CHOOSE x \in S : \A y \in S : x >= y

\* str.lower() on one code point: ASCII A-Z and Cyrillic U+0410..U+042F
LowerChar(c) ==
    IF c \in 65..90 THEN c + 32
    ELSE IF c \in 1040..1071 THEN c + 32
    ELSE c

Lower(s) == [i \in 1..Len(s) |-> LowerChar(s[i])]

\* `p in s` for two strings
Contains(s, p) ==
    \E i \in 0..(Len(s) - Len(p)) : SubSeq(s, i + 1, i + Len(p)) = p

\* str.isspace() on one code point
IsSpace(c) == c \in {9, 10, 11, 12, 13, 28, 29, 30, 31, 32, 133, 160}

\* str.strip()
Strip(s) ==
    LET keep == {i \in 1..Len(s) : ~IsSpace(s[i])}
    IN  IF keep = {} THEN <<>> ELSE SubSeq(s, SetMin(keep), SetMax(keep))

\* c.isascii() and c.isalpha()
IsAsciiAlpha(c) == c \in 65..90 \/ c \in 97..122

----------------------------------------------------------------------------
(* String literals of the program, as code points *)

\* "Sorry, I cannot fetch this right now."
APOLOGY == <<83, 111, 114, 114, 121, 44, 32, 73, 32, 99, 97, 110, 110, 111, 116, 32, 102, 101, 116, 99, 104, 32, 116, 104, 105, 115, 32, 114, 105, 103, 104, 116, 32, 110, 111, 119, 46>>
\* "⚠ Error fetching from Gemini: "
GEMINI_ERROR_PREFIX == <<9888, 32, 69, 114, 114, 111, 114, 32, 102, 101, 116, 99, 104, 105, 110, 103, 32, 102, 114, 111, 109, 32, 71, 101, 109, 105, 110, 105, 58, 32>>
\* "⚠ Could not fetch response from Gemini."
COULD_NOT_FETCH == <<9888, 32, 67, 111, 117, 108, 100, 32, 110, 111, 116, 32, 102, 101, 116, 99, 104, 32, 114, 101, 115, 112, 111, 110, 115, 101, 32, 102, 114, 111, 109, 32, 71, 101, 109, 105, 110, 105, 46>>
\* "\nYou are a concise accurate health assistant. The user asked: "
PROMPT_HEAD == <<10, 89, 111, 117, 32, 97, 114, 101, 32, 97, 32, 99, 111, 110, 99, 105, 115, 101, 32, 97, 99, 99, 117, 114, 97, 116, 101, 32, 104, 101, 97, 108, 116, 104, 32, 97, 115, 115, 105, 115, 116, 97, 110, 116, 46, 32, 84, 104, 101, 32, 117, 115, 101, 114, 32, 97, 115, 107, 101, 100, 58, 32>>
\* "\n\nProvide reliable, high-level information about causes, prevention, and remedies\n(if disease-related), in clear English. If the question is not health-related,\npolitely say so.\n"
PROMPT_TAIL == <<10, 10, 80, 114, 111, 118, 105, 100, 101, 32, 114, 101, 108, 105, 97, 98, 108, 101, 44, 32, 104, 105, 103, 104, 45, 108, 101, 118, 101, 108, 32, 105, 110, 102, 111, 114, 109, 97, 116, 105, 111, 110, 32, 97, 98, 111, 117, 116, 32, 99, 97, 117, 115, 101, 115, 44, 32, 112, 114, 101, 118, 101, 110, 116, 105, 111, 110, 44, 32, 97, 110, 100, 32, 114, 101, 109, 101, 100, 105, 101, 115, 10, 40, 105, 102, 32, 100, 105, 115, 101, 97, 115, 101, 45, 114, 101, 108, 97, 116, 101, 100, 41, 44, 32, 105, 110, 32, 99, 108, 101, 97, 114, 32, 69, 110, 103, 108, 105, 115, 104, 46, 32, 73, 102, 32, 116, 104, 101, 32, 113, 117, 101, 115, 116, 105, 111, 110, 32, 105, 115, 32, 110, 111, 116, 32, 104, 101, 97, 108, 116, 104, 45, 114, 101, 108, 97, 116, 101, 100, 44, 10, 112, 111, 108, 105, 116, 101, 108, 121, 32, 115, 97, 121, 32, 115, 111, 46, 10>>
\* "Error"
ERROR == <<69, 114, 114, 111, 114>>
\* "503"
S503 == <<53, 48, 51>>

\* language codes
HI == <<104, 105>>
OR == <<111, 114>>
BN == <<98, 110>>
TE == <<116, 101>>
TA == <<116, 97>>
KN == <<107, 110>>
ML == <<109, 108>>
GU == <<103, 117>>
EN == <<101, 110>>
AR == <<97, 114>>
RU == <<114, 117>>
ES == <<101, 115>>
ENG == <<101, 110, 103>>
ENGLISH == <<101, 110, 103, 108, 105, 115, 104>>

\* speech locales
hi_IN == <<104, 105, 45, 73, 78>>
or_IN == <<111, 114, 45, 73, 78>>
bn_IN == <<98, 110, 45, 73, 78>>
te_IN == <<116, 101, 45, 73, 78>>
ta_IN == <<116, 97, 45, 73, 78>>
kn_IN == <<107, 110, 45, 73, 78>>
ml_IN == <<109, 108, 45, 73, 78>>
gu_IN == <<103, 117, 45, 73, 78>>
en_US == <<101, 110, 45, 85, 83>>
ar_SA == <<97, 114, 45, 83, 65>>
ru_RU == <<114, 117, 45, 82, 85>>
es_ES == <<101, 115, 45, 69, 83>>

----------------------------------------------------------------------------
(* Knowledge base lookup *)

\* keywords and info of one entry of faqs, as lines 44-45 read them
entry_keywords(entry) == IF entry.dict THEN entry.keywords ELSE <<>>
entry_info(entry) == entry.info

\* the inner loop: some keyword of the entry, lowercased, is in q;
\* a keyword that is not a string raises and is skipped
keyword_hit(keywords, q) ==
    \E j \in 1..Len(keywords) :
        IsStr(keywords[j]) /\ Contains(q, Lower(keywords[j]))

RECURSIVE faq_scan(_, _, _)
faq_scan(kb, i, q) ==
    IF i > Len(kb) THEN None
    ELSE IF keyword_hit(entry_keywords(kb[i]), q) THEN entry_info(kb[i])
    ELSE faq_scan(kb, i + 1, q)

\* the lookup without line 42: the query is not lowercased
find_answer_case_sensitive(user_query) == faq_scan(faqs, 1, user_query)

find_answer_from_faqs(user_query) == faq_scan(faqs, 1, Lower(user_query))

----------------------------------------------------------------------------
(* Language detection and speech locale *)

\* the language of the Unicode block of one code point, None outside the listed blocks
script_of(o) ==
    IF o \in 2304..2431 THEN HI
    ELSE IF o \in 2432..2559 THEN BN
    ELSE IF o \in 2816..2943 THEN OR
    ELSE IF o \in 2688..2815 THEN GU
    ELSE IF o \in 2944..3071 THEN TA
    ELSE IF o \in 3072..3199 THEN TE
    ELSE IF o \in 3200..3327 THEN KN
    ELSE IF o \in 3328..3455 THEN ML
    ELSE IF o \in 1536..1791 THEN AR
    ELSE IF o \in 1024..1279 THEN RU
    ELSE None

\* detect_language without the length test of line 110
detect_language_any_length(text0, ld) ==
    LET text == Strip(IF Truthy(text0) THEN text0 ELSE <<>>)
        hits == {i \in 1..Len(text) : script_of(text[i]) # None}
    IN  IF text = <<>> THEN EN
        ELSE IF ld.kind = "returns" /\ IsStr(ld.value) THEN Lower(ld.value)
        ELSE IF hits # {} THEN script_of(text[SetMin(hits)])
        ELSE EN

\* detect_language returning the script of the last, not the first, listed character
detect_language_last_script(text0, ld) ==
    LET text == Strip(IF Truthy(text0) THEN text0 ELSE <<>>)
        hits == {i \in 1..Len(text) : script_of(text[i]) # None}
    IN  IF text = <<>> THEN EN
        ELSE IF ld.kind = "returns" /\ IsStr(ld.value) /\ Len(ld.value) >= 2
            THEN Lower(ld.value)
        ELSE IF hits # {} THEN script_of(text[SetMax(hits)])
        ELSE EN

\* ld: what langdetect does in this call: [kind |-> "unavailable" | "raises" | "returns", value]
detect_language(text0, ld) ==
    LET text == Strip(IF Truthy(text0) THEN text0 ELSE <<>>)
        hits == {i \in 1..Len(text) : script_of(text[i]) # None}
        ascii_letters == Cardinality({i \in 1..Len(text) : IsAsciiAlpha(text[i])})
    IN  IF text = <<>> THEN EN
        ELSE IF ld.kind = "returns" /\ IsStr(ld.value) /\ Len(ld.value) >= 2
            THEN Lower(ld.value)
        ELSE IF hits # {} THEN script_of(text[SetMin(hits)])
        ELSE IF 2 * ascii_letters >= Len(text) THEN EN
        ELSE EN

\* the table with en-US as the default of mapping.get
tts_locale_default_en_US(lang_code) ==
    CASE lang_code = HI -> hi_IN
      [] lang_code = OR -> or_IN
      [] lang_code = BN -> bn_IN
      [] lang_code = TE -> te_IN
      [] lang_code = TA -> ta_IN
      [] lang_code = KN -> kn_IN
      [] lang_code = ML -> ml_IN
      [] lang_code = GU -> gu_IN
      [] lang_code = EN -> en_US
      [] lang_code = AR -> ar_SA
      [] lang_code = RU -> ru_RU
      [] lang_code = ES -> es_ES
      [] OTHER -> en_US

tts_locale_for(lang_code) ==
    CASE lang_code = HI -> hi_IN
      [] lang_code = OR -> or_IN
      [] lang_code = BN -> bn_IN
      [] lang_code = TE -> te_IN
      [] lang_code = TA -> ta_IN
      [] lang_code = KN -> kn_IN
      [] lang_code = ML -> ml_IN
      [] lang_code = GU -> gu_IN
      [] lang_code = EN -> en_US
      [] lang_code = AR -> ar_SA
      [] lang_code = RU -> ru_RU
      [] lang_code = ES -> es_ES
      [] OTHER -> lang_code

----------------------------------------------------------------------------
(* Records *)

Turn(role, content) == [role |-> role, content |-> content]

\* one external call: the service, its model or source option, its target and its text,
\* whether it raised, and the str() of the exception or the text taken from the response
Call(svc, opt, target, text, raises, str) ==
    [svc |-> svc, opt |-> opt, target |-> target, text |-> text, raises |-> raises, str |-> str]

NoLd == [kind |-> "unavailable", value |-> None]
NoFetch == [user_query |-> None, retries |-> 0, attempt |-> 0, prompt |-> None]
NoTrans == [text |-> None, target_lang |-> None]
\* the values of one script run: clear is what st.button("Clear Chat") returned in it
NoRun ==
    [clear |-> FALSE, user_input |-> None, ld |-> NoLd, detected_lang |-> None,
     answer_en |-> None, bot_reply_text_for_tts |-> None, tts_lang_for_reply |-> en_US]

\* the part of the state a run or a call works on
Cur ==
    [pc |-> pc, caller |-> caller, messages |-> messages, ret |-> ret,
     fetch |-> fetch, trans |-> trans, run |-> run]

Become(st) ==
    /\ pc' = st.pc
    /\ caller' = st.caller
    /\ messages' = st.messages
    /\ ret' = st.ret
    /\ fetch' = st.fetch
    /\ trans' = st.trans
    /\ run' = st.run

----------------------------------------------------------------------------
(* The script from the translation on, and translate_text *)

\* lines 292-297: the bot turn is appended, the text and locale to speak are kept
Emit(st, translated_answer) ==
    [st EXCEPT !.pc = "idle",
               !.messages = Append(@, Turn("bot", translated_answer)),
               !.run.bot_reply_text_for_tts = translated_answer,
               !.run.tts_lang_for_reply = tts_locale_for(st.run.detected_lang)]

\* translate_text returns value
translate_return(st, value) ==
    IF st.caller = "script" THEN Emit(st, value)
    ELSE [st EXCEPT !.pc = "idle", !.ret = value]

\* translate_text without the .lower() of line 185
translate_text_case_sensitive(st, text, target) ==
    IF ~Truthy(text) THEN translate_return(st, text)
    ELSE LET target_lang == IF Truthy(target) THEN target ELSE EN
             st1 == [st EXCEPT !.trans = [text |-> text, target_lang |-> target_lang]]
         IN  IF target_lang \in {EN, ENG, ENGLISH} THEN translate_return(st1, text)
             ELSE [st1 EXCEPT !.pc = "translate_auto"]

\* lines 183-187: translate_text up to its first call of the service
translate_text(st, text, target) ==
    IF ~Truthy(text) THEN translate_return(st, text)
    ELSE LET target_lang == Lower(IF Truthy(target) THEN target ELSE EN)
             st1 == [st EXCEPT !.trans = [text |-> text, target_lang |-> target_lang]]
         IN  IF target_lang \in {EN, ENG, ENGLISH} THEN translate_return(st1, text)
             ELSE [st1 EXCEPT !.pc = "translate_auto"]

\* lines 286-288 handing the query, not the English answer, to translate_text
Localize_translates_query(st) ==
    IF st.run.detected_lang \in {EN, ENG} THEN Emit(st, st.run.answer_en)
    ELSE translate_text(st, st.run.user_input, st.run.detected_lang)

\* lines 286-288
Localize(st) ==
    IF st.run.detected_lang \in {EN, ENG} THEN Emit(st, st.run.answer_en)
    ELSE translate_text(st, st.run.answer_en, st.run.detected_lang)

\* lines 281-282 without the test for "Error"
Fallback_only_when_empty(st, answer_en) ==
    IF ~Truthy(answer_en)
        THEN LET again == find_answer_from_faqs(st.run.user_input)
             IN  IF Truthy(again) THEN again ELSE APOLOGY
        ELSE answer_en

\* lines 281-282, with answer_en the result of the lookup or of fetch_from_gemini
Fallback(st, answer_en) ==
    IF ~Truthy(answer_en) \/ Contains(answer_en, ERROR)
        THEN LET again == find_answer_from_faqs(st.run.user_input)
             IN  IF Truthy(again) THEN again ELSE APOLOGY
        ELSE answer_en

Resolve(st, answer_en) ==
    Localize([st EXCEPT !.run.answer_en = Fallback(st, answer_en)])

----------------------------------------------------------------------------
(* fetch_from_gemini *)

\* the f-string of lines 59-65
Prompt(user_query) == PROMPT_HEAD \o user_query \o PROMPT_TAIL

fetch_return(st, value) ==
    IF st.caller = "script" THEN Resolve(st, value)
    ELSE [st EXCEPT !.pc = "idle", !.ret = value]

\* line 66 as range(retries - 1): one iteration short
loop_head_one_short(st) ==
    IF st.fetch.attempt < st.fetch.retries - 1 THEN [st EXCEPT !.pc = "primary"]
    ELSE fetch_return(st, COULD_NOT_FETCH)

\* line 66: the next iteration of the loop, or line 94 when range(retries) is exhausted
loop_head(st) ==
    IF st.fetch.attempt < st.fetch.retries THEN [st EXCEPT !.pc = "primary"]
    ELSE fetch_return(st, COULD_NOT_FETCH)

fetch_from_gemini(st, user_query, retries) ==
    loop_head([st EXCEPT !.fetch = [user_query |-> user_query, retries |-> retries,
                                    attempt |-> 0, prompt |-> Prompt(user_query)]])

\* lines 74-77 and 88-91: response.text.strip(), or str(response).strip() when .text fails
response_text(r) == IF r.text # None THEN Strip(r.text) ELSE Strip(r.str)

----------------------------------------------------------------------------
(* Outcomes of the external services *)

\* generate_content: a response with .text (None: no usable .text) and str(response),
\* or an exception with str(e)
Responses ==
    { [raises |-> FALSE, text |-> <<32, 82, 101, 115, 116, 10>>, str |-> <<60, 82, 62>>],  \* " Rest\n"
      [raises |-> FALSE, text |-> <<78, 111, 32, 69, 114, 114, 111, 114>>, str |-> <<60, 82, 62>>],  \* "No Error"
      [raises |-> FALSE, text |-> <<32>>, str |-> <<60, 82, 62>>],            \* " "
      [raises |-> FALSE, text |-> None, str |-> <<60, 82, 62>>],              \* "<R>"
      [raises |-> TRUE, text |-> None, str |-> <<69, 53, 48, 51>>],           \* "E503"
      [raises |-> TRUE, text |-> None, str |-> <<52, 48, 52>>] }              \* "404"

\* GoogleTranslator(...).translate(text) when it succeeds: a text in the target
\* language, here the text tagged with the target code
GoogleTranslate(text, target) == target \o <<58>> \o text

Outcomes == {"ok", "raises"}

----------------------------------------------------------------------------
(* Steps of a run: the blocking calls *)

\* lines 67-81 with a retry on every "503", also on the last attempt
PrimaryCall_retries_on_last_attempt(r) ==
    /\ pc = "primary"
    /\ LET call == Call("generate_content", PRIMARY_MODEL, None, fetch.prompt, r.raises,
                        IF r.raises THEN r.str ELSE response_text(r))
           transient == Contains(r.str, S503)
       IN  IF ~r.raises
               THEN /\ calls' = Append(calls, call)
                    /\ Become(fetch_return(Cur, response_text(r)))
           ELSE IF transient
               THEN /\ calls' = calls \o <<call, Call("sleep", "1.5", None, None, FALSE, None)>>
                    /\ Become(loop_head([Cur EXCEPT !.fetch.attempt = @ + 1]))
           ELSE /\ calls' = Append(calls, call)
                /\ Become([Cur EXCEPT !.pc = "backup"])
    /\ UNCHANGED <<faqs, args>>

\* lines 67-81 with a retry after any exception while attempts remain
PrimaryCall_retries_any_error(r) ==
    /\ pc = "primary"
    /\ LET call == Call("generate_content", PRIMARY_MODEL, None, fetch.prompt, r.raises,
                        IF r.raises THEN r.str ELSE response_text(r))
           transient == fetch.attempt < fetch.retries - 1
       IN  IF ~r.raises
               THEN /\ calls' = Append(calls, call)
                    /\ Become(fetch_return(Cur, response_text(r)))
           ELSE IF transient
               THEN /\ calls' = calls \o <<call, Call("sleep", "1.5", None, None, FALSE, None)>>
                    /\ Become(loop_head([Cur EXCEPT !.fetch.attempt = @ + 1]))
           ELSE /\ calls' = Append(calls, call)
                /\ Become([Cur EXCEPT !.pc = "backup"])
    /\ UNCHANGED <<faqs, args>>

\* lines 67-81: one call of the primary model
PrimaryCall(r) ==
    /\ pc = "primary"
    /\ LET call == Call("generate_content", PRIMARY_MODEL, None, fetch.prompt, r.raises,
                        IF r.raises THEN r.str ELSE response_text(r))
           transient == Contains(r.str, S503) /\ fetch.attempt < fetch.retries - 1
       IN  IF ~r.raises
               THEN /\ calls' = Append(calls, call)
                    /\ Become(fetch_return(Cur, response_text(r)))
           ELSE IF transient
               THEN /\ calls' = calls \o <<call, Call("sleep", "1.5", None, None, FALSE, None)>>
                    /\ Become(loop_head([Cur EXCEPT !.fetch.attempt = @ + 1]))
           ELSE /\ calls' = Append(calls, call)
                /\ Become([Cur EXCEPT !.pc = "backup"])
    /\ UNCHANGED <<faqs, args>>

\* lines 83-93: the one call of the backup model
BackupCall(r) ==
    /\ pc = "backup"
    /\ calls' = Append(calls, Call("generate_content", BACKUP_MODEL, None, fetch.prompt, r.raises,
                               IF r.raises THEN r.str ELSE response_text(r)))
    /\ Become(fetch_return(Cur, IF r.raises THEN GEMINI_ERROR_PREFIX \o r.str
                                ELSE response_text(r)))
    /\ UNCHANGED <<faqs, args>>

\* lines 188-192: the translation with source="auto"
TranslateAuto(o) ==
    /\ pc = "translate_auto"
    /\ calls' = Append(calls, Call("translate", "auto", trans.target_lang, trans.text,
                               o = "raises", None))
    /\ Become(IF o = "ok"
                  THEN translate_return(Cur, GoogleTranslate(trans.text, trans.target_lang))
                  ELSE [Cur EXCEPT !.pc = "translate_en"])
    /\ UNCHANGED <<faqs, args>>

\* lines 193-197 returning None, not the text, when the second call fails
TranslateEn_loses_text(o) ==
    /\ pc = "translate_en"
    /\ calls' = Append(calls, Call("translate", "en", trans.target_lang, trans.text,
                               o = "raises", None))
    /\ Become(translate_return(Cur, IF o = "ok"
                                        THEN GoogleTranslate(trans.text, trans.target_lang)
                                        ELSE None))
    /\ UNCHANGED <<faqs, args>>

\* lines 193-197 without the inner except: the second failure propagates
TranslateEn_propagates(o) ==
    /\ pc = "translate_en"
    /\ calls' = Append(calls, Call("translate", "en", trans.target_lang, trans.text,
                               o = "raises", None))
    /\ Become(IF o = "ok"
                  THEN translate_return(Cur, GoogleTranslate(trans.text, trans.target_lang))
                  ELSE [Cur EXCEPT !.pc = "raised"])
    /\ UNCHANGED <<faqs, args>>

\* lines 193-197: the translation with source="en"
TranslateEn(o) ==
    /\ pc = "translate_en"
    /\ calls' = Append(calls, Call("translate", "en", trans.target_lang, trans.text,
                               o = "raises", None))
    /\ Become(translate_return(Cur, IF o = "ok"
                                        THEN GoogleTranslate(trans.text, trans.target_lang)
                                        ELSE trans.text))
    /\ UNCHANGED <<faqs, args>>

----------------------------------------------------------------------------
(* The chat session: script runs *)

\* what langdetect may do in one call of detect_language
DetectorBehaviours ==
    { [kind |-> "unavailable", value |-> None],
      [kind |-> "raises", value |-> None],
      [kind |-> "returns", value |-> <<102, 114>>],      \* "fr"
      [kind |-> "returns", value |-> <<72, 73>>],        \* "HI"
      [kind |-> "returns", value |-> <<122>>],           \* "z"
      [kind |-> "returns", value |-> NotAString] }

SessionDetectors ==
    { [kind |-> "unavailable", value |-> None],
      [kind |-> "raises", value |-> None],
      [kind |-> "returns", value |-> <<102, 114>>] }

\* entries of faqs.json
FluEntry == [dict |-> TRUE, keywords |-> << <<97>> >>, info |-> <<70, 108, 117>>]               \* "a": "Flu"
ErrEntry == [dict |-> TRUE, keywords |-> << <<66, 97>> >>, info |-> <<82, 120, 32>> \o ERROR]   \* "Ba": "Rx Error"
EmptyEntry == [dict |-> TRUE, keywords |-> <<NotAString, <<97>> >>, info |-> <<>>]              \* 7, "a": ""
ColdEntry == [dict |-> TRUE, keywords |-> << <<1041>> >>, info |-> <<67, 111, 108, 100>>]       \* Cyrillic Be: "Cold"
BareEntry == [dict |-> FALSE, keywords |-> <<>>, info |-> <<70, 108, 117>>]                     \* a bare string
NoInfoEntry == [dict |-> TRUE, keywords |-> << <<49>> >>, info |-> None]                        \* "1", no info

SessionKBs ==
    { <<>>, <<ErrEntry, FluEntry>>, <<EmptyEntry>>, <<BareEntry, FluEntry>> }

\* "a", "Ba", " ", Devanagari KA
SessionQueries == { <<97>>, <<66, 97>>, <<32>>, <<2325>> }

Init ==
    /\ faqs \in SessionKBs
    /\ messages = <<>>
    /\ pc = "idle"
    /\ caller = "script"
    /\ args = <<>>
    /\ ret = None
    /\ calls = <<>>
    /\ fetch = NoFetch
    /\ trans = NoTrans
    /\ run = NoRun

\* lines 266-297 with the user turn holding the stripped query
SubmitUpTo_appends_stripped(most, user_input, ld) ==
    /\ pc = "idle"
    /\ caller = "script"
    /\ Len(messages) < 2 * most
    /\ LET detected_lang == detect_language(user_input, ld)
           answer_en == find_answer_from_faqs(user_input)
           st == [Cur EXCEPT !.messages = Append(@, Turn("user", Strip(user_input))),
                             !.fetch = NoFetch,
                             !.trans = NoTrans,
                             !.run = [NoRun EXCEPT !.user_input = user_input,
                                                   !.ld = ld,
                                                   !.detected_lang = detected_lang,
                                                   !.answer_en = answer_en]]
       IN  Become(IF ~Truthy(answer_en)
                      THEN fetch_from_gemini(st, user_input, DEFAULT_RETRIES)
                      ELSE Resolve(st, answer_en))
    /\ calls' = <<>>
    /\ UNCHANGED <<faqs, args>>

\* lines 266-297 answering a query seen before from the transcript
SubmitUpTo_cached(most, user_input, ld) ==
    /\ pc = "idle"
    /\ caller = "script"
    /\ Len(messages) < 2 * most
    /\ LET detected_lang == detect_language(user_input, ld)
           seen == {k \in 1..Len(messages) : messages[k] = Turn("user", user_input)}
           answer_en == IF seen # {} THEN messages[SetMax(seen) + 1].content
                        ELSE find_answer_from_faqs(user_input)
           st == [Cur EXCEPT !.messages = Append(@, Turn("user", user_input)),
                             !.fetch = NoFetch,
                             !.trans = NoTrans,
                             !.run = [NoRun EXCEPT !.user_input = user_input,
                                                   !.ld = ld,
                                                   !.detected_lang = detected_lang,
                                                   !.answer_en = answer_en]]
       IN  Become(IF ~Truthy(answer_en)
                      THEN fetch_from_gemini(st, user_input, DEFAULT_RETRIES)
                      ELSE Resolve(st, answer_en))
    /\ calls' = <<>>
    /\ UNCHANGED <<faqs, args>>

\* lines 266-297 up to the first blocking call: a run with a chat input,
\* while the transcript holds fewer than `most` queries
SubmitUpTo(most, user_input, ld) ==
    /\ pc = "idle"
    /\ caller = "script"
    /\ Len(messages) < 2 * most
    /\ LET detected_lang == detect_language(user_input, ld)
           answer_en == find_answer_from_faqs(user_input)
           st == [Cur EXCEPT !.messages = Append(@, Turn("user", user_input)),
                             !.fetch = NoFetch,
                             !.trans = NoTrans,
                             !.run = [NoRun EXCEPT !.user_input = user_input,
                                                   !.ld = ld,
                                                   !.detected_lang = detected_lang,
                                                   !.answer_en = answer_en]]
       IN  Become(IF ~Truthy(answer_en)
                      THEN fetch_from_gemini(st, user_input, DEFAULT_RETRIES)
                      ELSE Resolve(st, answer_en))
    /\ calls' = <<>>
    /\ UNCHANGED <<faqs, args>>

Submit(user_input, ld) == SubmitUpTo(MaxSubmits, user_input, ld)

\* lines 253-254 dropping the turns before the last pair only
ClearChat_keeps_last_pair ==
    /\ pc = "idle"
    /\ caller = "script"
    /\ messages' = IF Len(messages) > 2 THEN SubSeq(messages, Len(messages) - 1, Len(messages))
                   ELSE <<>>
    /\ fetch' = NoFetch
    /\ trans' = NoTrans
    /\ run' = [NoRun EXCEPT !.clear = TRUE]
    /\ calls' = <<>>
    /\ UNCHANGED <<faqs, pc, caller, args, ret>>

\* lines 253-254: a run started by the Clear Chat button, without chat input
ClearChat ==
    /\ pc = "idle"
    /\ caller = "script"
    /\ messages' = <<>>
    /\ fetch' = NoFetch
    /\ trans' = NoTrans
    /\ run' = [NoRun EXCEPT !.clear = TRUE]
    /\ calls' = <<>>
    /\ UNCHANGED <<faqs, pc, caller, args, ret>>

Step ==
    \/ \E r \in Responses : PrimaryCall(r)
    \/ \E r \in Responses : BackupCall(r)
    \/ \E o \in Outcomes : TranslateAuto(o)
    \/ \E o \in Outcomes : TranslateEn(o)

Next ==
    \/ \E user_input \in SessionQueries, ld \in SessionDetectors : Submit(user_input, ld)
    \/ ClearChat
    \/ Step

Spec == Init /\ [][Next]_vars

----------------------------------------------------------------------------
(* The helper functions called on their own, on any arguments *)

\* "a", "B", " ", "1", Devanagari KA, Cyrillic BE
Alphabet == {97, 66, 32, 49, 2325, 1041}

Texts == UNION {[1..n -> Alphabet] : n \in 0..MaxLen}

EntrySet == {FluEntry, ErrEntry, EmptyEntry, ColdEntry, BareEntry, NoInfoEntry}

KnowledgeBases == UNION {[1..n -> EntrySet] : n \in 0..MaxEntries}

\* the first and the last code point of each block tested in lines 116-147, and
\* code points next to the blocks (U+0A05 is Gurmukhi, which the code does not list)
ScriptChars ==
    {1024, 1279, 1536, 1791, 2304, 2431, 2432, 2559, 2688, 2815, 2816, 2943, 2944, 3071,
     3072, 3199, 3200, 3327, 3328, 3455} \cup {1023, 1280, 1535, 1792, 2303, 2565, 3456}

\* the texts given to detect_language
DetectTexts == Texts \cup {None} \cup {<<c>> : c \in ScriptChars} \cup {<<97, c>> : c \in ScriptChars}

\* "fr", "zh-cn", "EN"
LangCodes ==
    {HI, OR, BN, TE, TA, KN, ML, GU, EN, AR, RU, ES, ENG,
     <<102, 114>>, <<122, 104, 45, 99, 110>>, <<69, 78>>}

\* None, "", "en", "EN", "Eng", "eNGLISH", "hi", "FR"
Targets ==
    {None, <<>>, EN, <<69, 78>>, <<69, 110, 103>>, <<101, 78, 71, 76, 73, 83, 72>>,
     HI, <<70, 82>>}

\* None, "", " ", "Rest"
TransTexts == {None, <<>>, <<32>>, <<82, 101, 115, 116>>}

\* "a", Devanagari KA
FetchQueries == { <<97>>, <<2325>> }

CallInit ==
    /\ faqs \in KnowledgeBases
    /\ messages = <<>>
    /\ pc = "idle"
    /\ caller = "none"
    /\ args = <<>>
    /\ ret = None
    /\ calls = <<>>
    /\ fetch = NoFetch
    /\ trans = NoTrans
    /\ run = NoRun

\* no function has been called yet: each behaviour of CallSpec is one call
Fresh == pc = "idle" /\ caller = "none"

Enter(name) == [Cur EXCEPT !.caller = name]

CallFind(user_query) ==
    /\ Fresh
    /\ Become([Enter("find_answer_from_faqs") EXCEPT !.ret = find_answer_from_faqs(user_query)])
    /\ args' = <<user_query>>
    /\ calls' = <<>>
    /\ UNCHANGED faqs

CallDetect(text, ld) ==
    /\ Fresh
    /\ Become([Enter("detect_language") EXCEPT !.ret = detect_language(text, ld)])
    /\ args' = <<text, ld>>
    /\ calls' = <<>>
    /\ UNCHANGED faqs

CallTts(lang_code) ==
    /\ Fresh
    /\ Become([Enter("tts_locale_for") EXCEPT !.ret = tts_locale_for(lang_code)])
    /\ args' = <<lang_code>>
    /\ calls' = <<>>
    /\ UNCHANGED faqs

CallFetch(user_query, retries) ==
    /\ Fresh
    /\ Become(fetch_from_gemini(Enter("fetch_from_gemini"), user_query, retries))
    /\ args' = <<user_query, retries>>
    /\ calls' = <<>>
    /\ UNCHANGED faqs

CallTranslate(text, target) ==
    /\ Fresh
    /\ Become(translate_text(Enter("translate_text"), text, target))
    /\ args' = <<text, target>>
    /\ calls' = <<>>
    /\ UNCHANGED faqs

CallNext ==
    \/ \E user_query \in Texts : CallFind(user_query)
    \/ \E text \in DetectTexts, ld \in DetectorBehaviours : CallDetect(text, ld)
    \/ \E lang_code \in LangCodes : CallTts(lang_code)
    \/ \E user_query \in FetchQueries, retries \in 0..MaxRetries : CallFetch(user_query, retries)
    \/ \E text \in TransTexts, target \in Targets : CallTranslate(text, target)
    \/ Step

CallSpec == CallInit /\ [][CallNext]_vars

FairNext ==
    \/ \E user_input \in SessionQueries, ld \in SessionDetectors :
           SubmitUpTo(MaxFairSubmits, user_input, ld)
    \/ ClearChat
    \/ Step

\* every blocking call returns or raises: the script runs each call to completion
FairSpec == Init /\ [][FairNext]_vars /\ WF_vars(Step)

----------------------------------------------------------------------------
(* Vocabulary of the claims *)

\* some keyword of some entry, lowercased, is a substring of the lowercased query
KeywordMatch(query) ==
    \E i \in 1..Len(faqs) :
        /\ faqs[i].dict
        /\ \E j \in 1..Len(faqs[i].keywords) :
               /\ IsStr(faqs[i].keywords[j])
               /\ Contains(Lower(query), Lower(faqs[i].keywords[j]))

\* the entries that match the query, by position
MatchingEntries(query) ==
    {i \in 1..Len(faqs) :
        /\ faqs[i].dict
        /\ \E j \in 1..Len(faqs[i].keywords) :
               /\ IsStr(faqs[i].keywords[j])
               /\ Contains(Lower(query), Lower(faqs[i].keywords[j]))}

ModelCalls == {i \in 1..Len(calls) : calls[i].svc = "generate_content"}
PrimaryCalls == {i \in ModelCalls : calls[i].opt = PRIMARY_MODEL}
BackupCalls == {i \in ModelCalls : calls[i].opt = BACKUP_MODEL}
TranslateCalls == {i \in 1..Len(calls) : calls[i].svc = "translate"}

\* a script run is answering a query / has answered it
InRun == caller = "script" /\ run.user_input # None
RunDone == InRun /\ pc = "idle"

LastTurn == messages[Len(messages)]

----------------------------------------------------------------------------
(* C1: while the pipeline answers a query that matches a knowledge-base
   keyword, it never calls the language model, primary or backup, whatever
   the info of the matched entry is. *)
C1_NoModelCallOnKeywordMatch ==
    (InRun /\ KeywordMatch(run.user_input))
        => (pc \notin {"primary", "backup"} /\ ModelCalls = {})

----------------------------------------------------------------------------
(* C2: find_answer_from_faqs returns the info of the first entry, in the
   order of the knowledge base, one of whose keywords, lowercased, is a
   substring of the lowercased query, and None when no entry matches or the
   knowledge base is empty. *)
C2_LookupReturnsFirstMatch ==
    caller = "find_answer_from_faqs"
        => LET m == MatchingEntries(args[1])
           IN  ret = IF m = {} THEN None ELSE faqs[SetMin(m)].info

\* a later entry that also matches, with another info, is shadowed
C2_Witness ==
    /\ caller = "find_answer_from_faqs"
    /\ LET m == MatchingEntries(args[1])
       IN  /\ Cardinality(m) = 2
           /\ faqs[SetMax(m)].info # faqs[SetMin(m)].info
           /\ ret = faqs[SetMin(m)].info
           /\ Truthy(ret)

----------------------------------------------------------------------------
\* the primary call at position i failed and is not retried
Escalates(i) ==
    /\ i \in PrimaryCalls
    /\ calls[i].raises
    /\ \/ ~Contains(calls[i].str, S503)
       \/ Cardinality({k \in PrimaryCalls : k <= i}) = fetch.retries

(* C3: in one call of fetch_from_gemini with a retry budget of at least 1,
   a primary call that fails without "503" in its message, or fails on the
   last permitted attempt, is followed by exactly one backup call with the
   same prompt and by no further model call; the backup model is called in
   no other circumstance and at most once. *)
C3_BackupExactlyOnceAfterEscalation ==
    (caller = "fetch_from_gemini" /\ fetch.retries >= 1)
        => /\ \A i \in 1..Len(calls) :
                  Escalates(i)
                      => \/ i = Len(calls) /\ pc = "backup"
                         \/ /\ i + 1 = Len(calls)
                            /\ pc = "idle"
                            /\ i + 1 \in BackupCalls
                            /\ calls[i + 1].text = calls[i].text
           /\ \A j \in BackupCalls : j > 1 /\ Escalates(j - 1)
           /\ Cardinality(BackupCalls) <= 1
           /\ pc = "backup" => Len(calls) >= 1 /\ Escalates(Len(calls))

\* both permitted primary attempts failed with "503", then the backup model was called
C3_Witness ==
    /\ caller = "fetch_from_gemini"
    /\ pc = "idle"
    /\ fetch.retries = 2
    /\ Cardinality(PrimaryCalls) = 2
    /\ \A i \in PrimaryCalls : calls[i].raises /\ Contains(calls[i].str, S503)
    /\ Cardinality(BackupCalls) = 1
    /\ calls[Len(calls)].opt = BACKUP_MODEL

----------------------------------------------------------------------------
AllModelCallsRaised ==
    /\ BackupCalls # {}
    /\ \A i \in ModelCalls : calls[i].raises

\* what translate_text returned for the text, given the translation calls made
TranslatedOrOriginal(text, target) ==
    IF TranslateCalls # {} /\ ~calls[Len(calls)].raises
        THEN GoogleTranslate(text, Lower(target))
        ELSE text

(* C4: for a query with no knowledge-base match, when every primary call and
   the backup call raise, the English answer is the fixed apology and the bot
   turn is the apology (detected language English) or what translate_text
   returns for it (otherwise); no bot turn carries the raw
   "Error fetching from Gemini" text. *)
C4_ApologyWhenModelsFail ==
    /\ \A k \in 1..Len(messages) :
           messages[k].role = "bot" => ~Contains(messages[k].content, GEMINI_ERROR_PREFIX)
    /\ (InRun /\ ~KeywordMatch(run.user_input) /\ AllModelCallsRaised)
           => /\ run.answer_en = APOLOGY
              /\ pc = "idle"
                     => /\ LastTurn.role = "bot"
                        /\ LastTurn.content =
                               IF run.detected_lang \in {EN, ENG} THEN APOLOGY
                               ELSE TranslatedOrOriginal(APOLOGY, run.detected_lang)

\* the models failed for a Devanagari query and the apology was translated
C4_Witness ==
    /\ RunDone
    /\ ~KeywordMatch(run.user_input)
    /\ AllModelCallsRaised
    /\ run.detected_lang = HI
    /\ LastTurn = Turn("bot", GoogleTranslate(APOLOGY, HI))

----------------------------------------------------------------------------
AllowList == {EN, HI, OR, BN, GU, TA, TE, KN, ML, AR, RU, ES}

(* C5: detect_language returns a code of the allow-list {en, hi, or, bn, gu,
   ta, te, kn, ml, ar, ru, es}, whatever the statistical detector does; a
   detector result outside the allow-list is not returned. *)
C5_DetectedCodeInAllowList ==
    caller = "detect_language" => ret \in AllowList

\* the detector returned a string of at least two characters
DetectorUsable(ld) == ld.kind = "returns" /\ IsStr(ld.value) /\ Len(ld.value) >= 2

Blank(text) == text = None \/ \A i \in 1..Len(text) : IsSpace(text[i])

(* C5 as amended: detect_language returns "en" for blank text; otherwise the
   detector's result, lowercased, whenever that is a string of at least two
   characters, in the allow-list or not; and in every other case a code of
   {en, hi, or, bn, gu, ta, te, kn, ml, ar, ru}. *)
C5_DetectorResultOrHeuristicCode ==
    caller = "detect_language"
        => IF Blank(args[1]) THEN ret = EN
           ELSE IF DetectorUsable(args[2]) THEN ret = Lower(args[2].value)
           ELSE ret \in AllowList \ {ES}

\* the detector said "fr" and "fr" is returned
C5_Witness ==
    /\ caller = "detect_language"
    /\ ~Blank(args[1])
    /\ args[2].kind = "returns"
    /\ ret = <<102, 114>>
    /\ ret \notin AllowList

----------------------------------------------------------------------------
(* C6: translate_text first calls the translation service with source "auto";
   only if that call fails it calls the service once more, with source "en";
   if that fails too it returns the original text.  It makes at most two
   service calls, raises nothing and returns the text or a translation. *)
C6_TranslateFallsBackToOriginal ==
    caller = "translate_text"
        => /\ pc \in {"idle", "translate_auto", "translate_en"}
           /\ Len(calls) <= 2
           /\ \A i \in 1..Len(calls) :
                  /\ calls[i].svc = "translate"
                  /\ calls[i].text = args[1]
                  /\ calls[i].target = Lower(args[2])
                  /\ calls[i].opt = IF i = 1 THEN "auto" ELSE "en"
           /\ Len(calls) = 2 => calls[1].raises
           /\ pc = "translate_auto" => Len(calls) = 0
           /\ pc = "translate_en" <=> (Len(calls) = 1 /\ calls[1].raises)
           /\ (pc = "idle" /\ Len(calls) >= 1)
                  => ret = IF calls[Len(calls)].raises THEN args[1]
                           ELSE GoogleTranslate(args[1], Lower(args[2]))

\* both service calls failed and the original text came back
C6_Witness ==
    /\ caller = "translate_text"
    /\ pc = "idle"
    /\ Len(calls) = 2
    /\ calls[1].raises /\ calls[2].raises
    /\ calls[1].opt = "auto" /\ calls[2].opt = "en"
    /\ Truthy(args[1])
    /\ ret = args[1]

----------------------------------------------------------------------------
(* C7: translate_text returns the text unchanged without calling the
   translation service when the text is empty or the target is "en", "eng" or
   "english" in any letter case, or absent. *)
C7_NoTranslationForEnglishOrEmpty ==
    (/\ caller = "translate_text"
     /\ \/ args[1] = <<>>
        \/ args[2] = None
        \/ Lower(args[2]) \in {EN, ENG, ENGLISH})
        => /\ pc = "idle"
           /\ calls = <<>>
           /\ ret = args[1]

\* "Rest" with target "eNGLISH"
C7_Witness ==
    /\ caller = "translate_text"
    /\ args = << <<82, 101, 115, 116>>, <<101, 78, 71, 76, 73, 83, 72>> >>
    /\ pc = "idle"
    /\ calls = <<>>
    /\ ret = <<82, 101, 115, 116>>

----------------------------------------------------------------------------
LocaleTable ==
    { <<HI, hi_IN>>, <<OR, or_IN>>, <<BN, bn_IN>>, <<TE, te_IN>>, <<TA, ta_IN>>,
      <<KN, kn_IN>>, <<ML, ml_IN>>, <<GU, gu_IN>>, <<EN, en_US>>, <<AR, ar_SA>>,
      <<RU, ru_RU>>, <<ES, es_ES>> }

TableCodes == {p[1] : p \in LocaleTable}
TableTags == {p[2] : p \in LocaleTable}

(* C8: the speech locale composed for a query is the table's tag for the
   detected code and en-US for a detected code that is not in the table, so
   it is always one of the table's tags. *)
C8_LocaleFromTableElseEnUS ==
    RunDone
        => /\ \/ <<run.detected_lang, run.tts_lang_for_reply>> \in LocaleTable
              \/ run.detected_lang \notin TableCodes /\ run.tts_lang_for_reply = en_US
           /\ run.tts_lang_for_reply \in TableTags

(* C8 as amended: the speech locale is the table's tag for a detected code in
   the table and the detected code itself for any other code; it is one of
   the table's tags whenever the code came from the script and ASCII
   heuristics. *)
C8_LocaleFromTableElseCode ==
    RunDone
        => /\ \/ <<run.detected_lang, run.tts_lang_for_reply>> \in LocaleTable
              \/ /\ run.detected_lang \notin TableCodes
                 /\ run.tts_lang_for_reply = run.detected_lang
           /\ ~DetectorUsable(run.ld) => run.tts_lang_for_reply \in TableTags

\* the detector said "fr": the locale is "fr", which is no tag of the table
C8_Witness ==
    /\ RunDone
    /\ run.detected_lang = <<102, 114>>
    /\ run.tts_lang_for_reply = <<102, 114>>
    /\ run.tts_lang_for_reply \notin TableTags

----------------------------------------------------------------------------
(* C9: for a query that matches a knowledge-base keyword, the English answer
   of the pipeline is the info find_answer_from_faqs returned, also when that
   info is empty or contains "Error"; and when the detected language is
   English the content of the bot turn is that info. *)
C9_AnswerIsKnowledgeBaseInfo ==
    (RunDone /\ KeywordMatch(run.user_input))
        => /\ run.answer_en = faqs[SetMin(MatchingEntries(run.user_input))].info
           /\ run.detected_lang \in {EN, ENG}
                  => LastTurn = Turn("bot", faqs[SetMin(MatchingEntries(run.user_input))].info)

----------------------------------------------------------------------------
Alternates ==
    /\ pc \in {"idle", "primary", "backup", "translate_auto", "translate_en"}
    /\ \A k \in 1..Len(messages) :
           messages[k].role = IF k % 2 = 1 THEN "user" ELSE "bot"
    /\ pc = "idle" <=> Len(messages) % 2 = 0

\* a step that ends a run appends one bot turn; a step within a run leaves the transcript
OneBotTurnPerRun ==
    pc # "idle"
        => IF pc' = "idle"
               THEN \E c \in {run'.bot_reply_text_for_tts} : messages' = Append(messages, Turn("bot", c))
               ELSE messages' = messages

(* C10: whatever the generation, translation and detection services do, a
   submitted query's run ends without an exception and appends exactly one
   bot turn: user and bot turns alternate, and every user turn is eventually
   followed by its bot turn. *)
C10_EveryUserTurnGetsItsBotTurn ==
    /\ []Alternates
    /\ [][OneBotTurnPerRun]_vars
    /\ (pc # "idle") ~> (pc = "idle")

\* every service call of the run failed and the bot turn is there
C10_Witness ==
    /\ RunDone
    /\ run.ld.kind = "raises"
    /\ Cardinality(PrimaryCalls) = 2
    /\ Cardinality(BackupCalls) = 1
    /\ Cardinality(TranslateCalls) = 2
    /\ \A i \in ModelCalls \cup TranslateCalls : calls[i].raises
    /\ Len(messages) = 2
    /\ LastTurn = Turn("bot", APOLOGY)

----------------------------------------------------------------------------
\* a run on an empty transcript appends the user turn of its query and, when it
\* ends, the bot turn of that query, and nothing else
FirstPairOnly ==
    (pc = "idle" /\ messages = <<>> /\ messages' # <<>>)
        => /\ ~run'.clear
           /\ messages'[1] = Turn("user", run'.user_input)
           /\ IF pc' = "idle"
                  THEN messages' = <<Turn("user", run'.user_input),
                                     Turn("bot", run'.bot_reply_text_for_tts)>>
                  ELSE Len(messages') = 1

FirstPairCompleted ==
    (pc # "idle" /\ Len(messages) = 1 /\ messages' # messages)
        => /\ pc' = "idle"
           /\ run'.user_input = run.user_input
           /\ messages' = <<Turn("user", run.user_input),
                             Turn("bot", run'.bot_reply_text_for_tts)>>

(* C11: the clear action leaves a transcript of zero turns, whatever the
   transcript held before, and a query submitted on the cleared transcript
   yields a transcript of exactly two turns: the user turn of that query and
   its bot turn. *)
C11_ClearEmptiesTranscript ==
    /\ [](run.clear => messages = <<>> /\ pc = "idle")
    /\ [][run'.clear => messages' = <<>>]_vars
    /\ [][run.clear => FirstPairOnly]_vars
    /\ [][FirstPairCompleted]_vars

\* the Clear Chat button was the last thing pressed
C11_Witness ==
    /\ run.clear
    /\ messages = <<>>
    /\ pc = "idle"

----------------------------------------------------------------------------
\* translate_text is running with the English answer and the detected code
TranslatingAnswer ==
    /\ run.detected_lang \notin {EN, ENG}
    /\ trans = [text |-> run.answer_en, target_lang |-> run.detected_lang]

(* C12: in a pipeline run the translation service is called only when the
   detected language is not "en" or "eng", and then translate_text works on
   exactly the resolved English answer with the detected code as target, so
   every service call carries that text and that target; when the detected
   language is English the bot turn is the English answer and no call of the
   translation service is made. *)
C12_TranslateOnlyNonEnglish ==
    InRun
        => /\ pc \in {"translate_auto", "translate_en"} => TranslatingAnswer
           /\ \A i \in TranslateCalls :
                  /\ TranslatingAnswer
                  /\ calls[i].text = run.answer_en
                  /\ calls[i].target = run.detected_lang
           /\ (pc = "idle" /\ run.detected_lang \in {EN, ENG})
                  => LastTurn = Turn("bot", run.answer_en) /\ TranslateCalls = {}
           /\ (pc = "idle" /\ run.detected_lang \notin {EN, ENG})
                  => /\ TranslateCalls # {}
                     /\ LastTurn = Turn("bot", TranslatedOrOriginal(run.answer_en,
                                                                   run.detected_lang))

\* a Devanagari query answered by the model with "Rest": "Rest" is translated to "hi"
C12_Witness ==
    /\ RunDone
    /\ run.detected_lang = HI
    /\ run.answer_en = <<82, 101, 115, 116>>
    /\ run.answer_en # run.user_input
    /\ Cardinality(TranslateCalls) = 1
    /\ calls[Len(calls)] = Call("translate", "auto", HI, run.answer_en, FALSE, None)
    /\ LastTurn = Turn("bot", GoogleTranslate(run.answer_en, HI))

----------------------------------------------------------------------------
Waits == {i \in 1..Len(calls) : calls[i].svc = "sleep"}

\* the call at position i is a primary call that failed with "503" in its message
\* when fewer than the budget's primary calls had been made
TransientFailure(i) ==
    /\ i \in PrimaryCalls
    /\ calls[i].raises
    /\ Contains(calls[i].str, S503)
    /\ Cardinality({k \in PrimaryCalls : k <= i}) < fetch.retries

RetryDiscipline ==
    caller = "fetch_from_gemini"
        => /\ fetch.retries = args[2]
           /\ Cardinality(PrimaryCalls) <= fetch.retries
           /\ Cardinality(BackupCalls) <= 1
           /\ \A i \in PrimaryCalls :
                  i > 1 => /\ i > 2
                           /\ i - 1 \in Waits
                           /\ TransientFailure(i - 2)
           /\ \A j \in Waits :
                  /\ j > 1
                  /\ TransientFailure(j - 1)
                  /\ IF j = Len(calls) THEN pc = "primary" ELSE j + 1 \in PrimaryCalls
           /\ \A i \in PrimaryCalls :
                  TransientFailure(i) => i + 1 \in Waits
           /\ \A j \in BackupCalls : j = Len(calls) /\ j > 1 /\ j - 1 \in PrimaryCalls
           /\ pc = "backup" => Len(calls) \in PrimaryCalls
           /\ pc \in {"idle", "primary", "backup"}
           /\ (BackupCalls # {} \/ Cardinality(ModelCalls) = fetch.retries + 1) => pc = "idle"

\* every step of the call makes a model call, and the call is over when either
\* model answers or the backup model was called
FetchProgress ==
    (caller = "fetch_from_gemini" /\ pc # "idle")
        => /\ Cardinality(ModelCalls)' = Cardinality(ModelCalls) + 1
           /\ ~calls'[Cardinality(ModelCalls) + Cardinality(Waits) + 1].raises => pc' = "idle"

(* C13: in one call of fetch_from_gemini with budget N, the primary model is
   called again only after a primary call failed with "503" in its message
   while fewer than N primary calls had been made, and exactly one backoff
   wait lies between the two calls; the primary model is called at most N
   times, no wait precedes the backup call, and the call is over after at
   most N primary calls and one backup call. *)
C13_RetryOnlyAfterTransientFailure ==
    /\ []RetryDiscipline
    /\ [][FetchProgress]_vars

\* budget 3: three primary calls failed with "503", two waits, then the backup call
C13_Witness ==
    /\ caller = "fetch_from_gemini"
    /\ pc = "idle"
    /\ fetch.retries = 3
    /\ PrimaryCalls = {1, 3, 5}
    /\ Waits = {2, 4}
    /\ BackupCalls = {6}
    /\ \A i \in PrimaryCalls : Contains(calls[i].str, S503)

----------------------------------------------------------------------------
\* the last model call of the run returned a response with a non-empty text
ModelAnswered ==
    /\ ModelCalls # {}
    /\ ~calls[SetMax(ModelCalls)].raises
    /\ Truthy(calls[SetMax(ModelCalls)].str)

(* C14: for a query with no knowledge-base match, the English answer is the
   apology only when the model failed (its text is empty, or the primary and
   the backup call both raised); a non-empty text that the primary or the
   backup model returned is the English answer, unchanged, whatever words it
   contains. *)
C14_ModelTextBecomesAnswer ==
    (RunDone /\ ~KeywordMatch(run.user_input))
        => IF ModelAnswered
               THEN run.answer_en = calls[SetMax(ModelCalls)].str
               ELSE run.answer_en = APOLOGY

----------------------------------------------------------------------------
\* the bot turn of the current run: the English answer, or what translate_text
\* returned for it
ResolvedTurn ==
    Turn("bot", IF run.detected_lang \in {EN, ENG} THEN run.answer_en
                ELSE TranslatedOrOriginal(run.answer_en, run.detected_lang))

\* the transcript is whole pairs between runs and ends with the pair, or the
\* user turn, of the current run
PairsAtRest ==
    /\ \A k \in 1..Len(messages) :
           /\ messages[k].role = IF k % 2 = 1 THEN "user" ELSE "bot"
           /\ IsStr(messages[k].content)
    /\ IF pc = "idle"
           THEN /\ Len(messages) % 2 = 0
                /\ InRun => /\ Len(messages) >= 2
                            /\ messages[Len(messages) - 1] = Turn("user", run.user_input)
                            /\ LastTurn = ResolvedTurn
                /\ ~InRun => messages = <<>>
           ELSE /\ Len(messages) % 2 = 1
                /\ LastTurn = Turn("user", run.user_input)

\* a step leaves the transcript, empties it (clear), appends the user turn of a
\* new query, or appends the bot turn of the query of the run
TranscriptStep ==
    \/ messages' = messages
    \/ run'.clear /\ messages' = <<>>
    \/ /\ pc = "idle"
       /\ ~run'.clear
       /\ messages' = Append(messages, Turn("user", run'.user_input)) \o
                          (IF pc' = "idle" THEN <<ResolvedTurn'>> ELSE <<>>)
    \/ /\ pc # "idle"
       /\ pc' = "idle"
       /\ run'.user_input = run.user_input
       /\ messages' = Append(messages, ResolvedTurn')

(* C15: after any sequence of submissions and clears the transcript is the
   (user turn, bot turn) pairs, in submission order, of exactly the queries
   submitted since the last clear: its length is even, the roles alternate
   from user, each user turn holds the raw query and each bot turn the answer
   resolved for the user turn right before it. *)
C15_TranscriptIsPairsSinceClear ==
    /\ []PairsAtRest
    /\ [][TranscriptStep]_vars

\* two pairs of two different queries, the second query with surrounding space kept
C15_Witness ==
    /\ RunDone
    /\ Len(messages) = 4
    /\ messages[1] = Turn("user", <<66, 97>>)
    /\ messages[3] = Turn("user", <<32>>)
    /\ messages[2].content # messages[4].content
    /\ LastTurn = ResolvedTurn

----------------------------------------------------------------------------
\* the script ranges and their languages: first code point, last code point, code
ScriptRanges ==
    { <<2304, 2431, HI>>,     \* Devanagari U+0900..U+097F
      <<2432, 2559, BN>>,     \* Bengali    U+0980..U+09FF
      <<2816, 2943, OR>>,     \* Odia       U+0B00..U+0B7F
      <<2688, 2815, GU>>,     \* Gujarati   U+0A80..U+0AFF
      <<2944, 3071, TA>>,     \* Tamil      U+0B80..U+0BFF
      <<3072, 3199, TE>>,     \* Telugu     U+0C00..U+0C7F
      <<3200, 3327, KN>>,     \* Kannada    U+0C80..U+0CFF
      <<3328, 3455, ML>>,     \* Malayalam  U+0D00..U+0D7F
      <<1536, 1791, AR>>,     \* Arabic     U+0600..U+06FF
      <<1024, 1279, RU>> }    \* Cyrillic   U+0400..U+04FF

LanguagesOf(o) == {r[3] : r \in {q \in ScriptRanges : q[1] <= o /\ o <= q[2]}}

\* the positions of the text whose character lies in some script range
Recognized(text) == {i \in 1..Len(text) : LanguagesOf(text[i]) # {}}

(* C16: when the statistical detector is unavailable or raises,
   detect_language returns "en" for empty or whitespace-only text, otherwise
   the language of the first character, in text order, that lies in one of
   the script ranges, and "en" when no character lies in any of them. *)
C16_FirstRecognizedScriptElseEn ==
    (caller = "detect_language" /\ args[2].kind \in {"unavailable", "raises"})
        => IF Blank(args[1]) THEN ret = EN
           ELSE IF Recognized(args[1]) = {} THEN ret = EN
           ELSE LanguagesOf(args[1][SetMin(Recognized(args[1]))]) = {ret}

\* Cyrillic BE before Devanagari KA, langdetect raising: "ru"
C16_Witness ==
    /\ caller = "detect_language"
    /\ args[1] = <<1041, 2325>>
    /\ args[2].kind = "raises"
    /\ ret = RU

----------------------------------------------------------------------------
\* the info of the first matching entry of the knowledge base, None without a match
KnowledgeBaseInfo(query) ==
    IF MatchingEntries(query) = {} THEN None
    ELSE faqs[SetMin(MatchingEntries(query))].info

\* what the model calls of this run gave: the text of the last call, or the error
\* string when it raised
ModelResult ==
    IF calls[SetMax(ModelCalls)].raises
        THEN GEMINI_ERROR_PREFIX \o calls[SetMax(ModelCalls)].str
        ELSE calls[SetMax(ModelCalls)].str

\* the English answer as a function of the knowledge base, the query and the
\* outcomes of the model calls of this run, and of nothing else
AnswerOf(query) ==
    LET info == KnowledgeBaseInfo(query)
        first == IF Truthy(info) THEN info ELSE ModelResult
    IN  IF Truthy(first) /\ ~Contains(first, ERROR) THEN first
        ELSE IF Truthy(info) THEN info
        ELSE APOLOGY

(* C17: answers are not cached: every query with no knowledge-base match
   makes the run call the primary model anew with the prompt of that query,
   also when the same query was answered earlier in the session, and the
   answer of a run is determined by the knowledge base, the query and the
   outcomes of the calls of that run, not by the transcript or earlier
   queries. *)
C17_NoCachingAcrossQueries ==
    /\ (InRun /\ ~KeywordMatch(run.user_input))
           => IF calls = <<>> THEN pc = "primary"
              ELSE /\ 1 \in PrimaryCalls
                   /\ calls[1].text = Prompt(run.user_input)
    /\ RunDone
           => /\ run.answer_en = AnswerOf(run.user_input)
              /\ run.detected_lang = detect_language(run.user_input, run.ld)
              /\ LastTurn = ResolvedTurn

\* the same query twice, no match: the second run called the primary model
\* again and got another answer
C17_Witness ==
    /\ RunDone
    /\ Len(messages) = 4
    /\ ~KeywordMatch(run.user_input)
    /\ messages[1] = Turn("user", run.user_input)
    /\ messages[3] = Turn("user", run.user_input)
    /\ PrimaryCalls # {}
    /\ messages[2].content # messages[4].content

----------------------------------------------------------------------------
\* fetch_from_gemini has returned from inside its loop: with the text of a model
\* that answered, or with the error string after the backup call raised
ReturnedInLoop ==
    /\ ModelCalls # {}
    /\ Len(calls) \in ModelCalls
    /\ fetch.attempt < fetch.retries
    /\ IF calls[Len(calls)].raises
           THEN /\ Len(calls) \in BackupCalls
                /\ ret = GEMINI_ERROR_PREFIX \o calls[Len(calls)].str
           ELSE ret = calls[Len(calls)].str
    /\ ret # COULD_NOT_FETCH

\* fetch_from_gemini has returned the trailing result without any model call
ReturnedAfterLoop ==
    /\ calls = <<>>
    /\ ret = COULD_NOT_FETCH

(* C18: for every retry budget of at least 1 and every pattern of model
   failures, fetch_from_gemini returns from inside its loop, a model response
   or the "Error fetching from Gemini" string of the failed backup call; the
   trailing "Could not fetch response from Gemini." is returned only for the
   budget 0, and then no model call, primary or backup, is made. *)
C18_TrailingResultOnlyForBudgetZero ==
    (caller = "fetch_from_gemini" /\ pc = "idle")
        => /\ args[2] >= 1 => ReturnedInLoop
           /\ ret = COULD_NOT_FETCH => args[2] = 0
           /\ args[2] = 0 => ReturnedAfterLoop

\* budget 0: the trailing result and no call
C18_Witness ==
    /\ caller = "fetch_from_gemini"
    /\ pc = "idle"
    /\ args[2] = 0
    /\ ReturnedAfterLoop

====
